---------------------------- MODULE Spec2Model ----------------------------
(***************************************************************************)
(* Glue-shader generators of LGC: the fetch shader                         *)
(* (lgc/elfLinker/FetchShader.cpp) and the copy shader                     *)
(* (lgc/patch/llpcPatchCopyShader.cpp), as state machines.                 *)
(*                                                                         *)
(* SpecKey  : two FetchShader objects and their getString() calls.         *)
(* SpecGen  : one FetchShader object and the steps of generate().          *)
(* SpecCopy : one run of PatchCopyShader::runOnModule.                     *)
(***************************************************************************)
EXTENDS Integers, Sequences, FiniteSets, TLC

VARIABLES
  \* ---- FetchShader objects (index 1 and 2) and the memory they point into
  heap,                 \* address -> VertexInputDescription stored there
  m_fetches,            \* object -> sequence of VertexFetchInfo
  m_fetchDescriptions,  \* object -> sequence of pointers (0 is nullptr)
  m_vsEntryRegInfo,     \* object -> VsEntryRegInfo
  m_shaderString,       \* object -> sequence of bytes
  \* ---- FetchShader::generate() of object 1
  fpc,                  \* position in generate()
  fetchFunc,            \* [params, retTys, cc] of the created function
  insts,                \* instructions of the function's only block, in order
  decls,                \* placeholder declarations of the module, in order
  nextId,               \* next fresh instruction id
  idx,                  \* loop index of the fetch loop
  result,               \* the value `result` of generate()
  created,              \* number of placeholder calls fetchVertex has created
  resolved,             \* number of placeholder calls replaced and erased
  \* ---- PatchCopyShader::runOnModule
  pipeline,             \* what the pass reads from PipelineState (fixed in a run)
  genericOutByteSizes,  \* <<streamId, location>> -> byte size of each component
  cpc,                  \* position in runOnModule
  code,                 \* instructions emitted for the copy shader, in order
  switchInst,           \* the switch on the stream id, once created
  streamId,             \* loop index of the loop over the streams
  outputStreamId,       \* the local outputStreamId of runOnModule
  failed,               \* assertions that did not hold
  copyOut               \* what the pass leaves: stage mask, functions, ...

fetchVars == <<heap, m_fetches, m_fetchDescriptions, m_vsEntryRegInfo, m_shaderString>>
genVars == <<fpc, fetchFunc, insts, decls, nextId, idx, result, created, resolved>>
copyVars == <<pipeline, genericOutByteSizes, cpc, code, switchInst, streamId,
              outputStreamId, failed, copyOut>>
vars == <<fetchVars, genVars, copyVars>>

\* ------------------------------------------------------------------ bounds
\* Longest fetch list the model constructs.
MaxFetches == 2

\* --------------------------------------------------------------- utilities
RECURSIVE Concat(_)
Concat(ss) == IF ss = <<>> THEN <<>> ELSE Head(ss) \o Concat(Tail(ss))

Range(s) == {s[i] : i \in DOMAIN s}

SeqsUpTo(S, n) == UNION {[1..k -> S] : k \in 0..n}

\* The bytes of a 32-bit unsigned in memory (little endian), as
\* StringRef(reinterpret_cast<const char *>(&x), sizeof(x)) reads them.
BytesOfUnsigned(x) ==
  <<x % 256, (x \div 256) % 256, (x \div 65536) % 256, (x \div 16777216) % 256>>

\* ----------------------------------------------------------- fetch inputs
\* Value types of a fetch: scalar or vector of an integer or float element.
Ty(vec, elem, bits) == [vec |-> vec, elem |-> elem, bits |-> bits]

Digits(n) == IF n < 10 THEN <<48 + n>> ELSE <<48 + (n \div 10), 48 + (n % 10)>>

\* getTypeName: "v<N>" for a vector of N, then "f" or "i" and the bit width.
getTypeName(ty) ==
  (IF ty.vec > 1 THEN <<118>> \o Digits(ty.vec) ELSE <<>>)
    \o <<IF ty.elem = "f" THEN 102 ELSE 105>> \o Digits(ty.bits)

VertexFetchInfo(location, component, ty) ==
  [location |-> location, component |-> component, ty |-> ty]

\* The fetches the model draws lists from: each differs from the first in one
\* field; location 13366 has the low bytes "64" of a type name's digits.
FetchInfos ==
  { VertexFetchInfo(0, 0, Ty(4, "f", 32)),
    VertexFetchInfo(13366, 0, Ty(4, "f", 32)),
    VertexFetchInfo(0, 1, Ty(4, "f", 32)),
    VertexFetchInfo(0, 0, Ty(1, "i", 8)) }

Locations == {f.location : f \in FetchInfos}

FetchLists == SeqsUpTo(FetchInfos, MaxFetches)

\* VertexInputDescription: layout metadata of one bound attribute.
VertexInputDescription(location, binding, offset, stride) ==
  [location |-> location, binding |-> binding, offset |-> offset, stride |-> stride]

\* The bytes of a description object in memory.
BytesOfDescription(d) ==
  BytesOfUnsigned(d.location) \o BytesOfUnsigned(d.binding)
    \o BytesOfUnsigned(d.offset) \o BytesOfUnsigned(d.stride)

\* Calling conventions (llvm::CallingConv::ID values).
AMDGPU_VS == 87
AMDGPU_GS == 88
AMDGPU_HS == 93

VsEntryRegInfo(cc, sgprCount, vgprCount, vbt, bv, bi, vid, iid, wave32) ==
  [callingConv |-> cc, sgprCount |-> sgprCount, vgprCount |-> vgprCount,
   vertexBufferTable |-> vbt, baseVertex |-> bv, baseInstance |-> bi,
   vertexId |-> vid, instanceId |-> iid, wave32 |-> wave32]

\* The bytes of the VsEntryRegInfo object in memory.
BytesOfRegInfo(r) ==
  BytesOfUnsigned(r.callingConv) \o BytesOfUnsigned(r.vertexBufferTable)
    \o BytesOfUnsigned(r.baseVertex) \o BytesOfUnsigned(r.baseInstance)
    \o BytesOfUnsigned(r.sgprCount) \o BytesOfUnsigned(r.vertexId)
    \o BytesOfUnsigned(r.instanceId) \o BytesOfUnsigned(r.vgprCount)
    \o <<IF r.wave32 THEN 1 ELSE 0>>

\* Entry register layouts the model draws from: the slot indices are valid
\* argument indices, as getArg() requires.
RegInfos ==
  { VsEntryRegInfo(AMDGPU_VS, 4, 2, 0, 1, 2, 0, 1, FALSE),
    VsEntryRegInfo(AMDGPU_GS, 5, 3, 4, 1, 2, 0, 2, TRUE),
    VsEntryRegInfo(AMDGPU_HS, 4, 2, 1, 2, 0, 1, 0, FALSE) }

\* ------------------------------------------------- pipeline state, memory
Objects == {1, 2}

\* Where the pipeline state of object o keeps the description of a location.
AddrOf(o, location) == 100000 * o + location + 1

\* A table of vertex inputs: location -> "bound" or "unbound".
InputTables == [Locations -> BOOLEAN]

DescriptionOf(location) == VertexInputDescription(location, 1, 4 * (location % 7), 16)

\* PipelineState::findVertexInputDescription: the address of the description of
\* `location`, or nullptr (0).
findVertexInputDescription(mem, o, location) ==
  IF AddrOf(o, location) \in DOMAIN mem THEN AddrOf(o, location) ELSE 0

\* The memory holding the descriptions of both objects' pipeline states.
HeapOf(tab1, tab2) ==
  [a \in {AddrOf(1, l) : l \in {l \in Locations : tab1[l]}}
        \cup {AddrOf(2, l) : l \in {l \in Locations : tab2[l]}} |->
     DescriptionOf(CHOOSE l \in Locations : a \in {AddrOf(1, l), AddrOf(2, l)})]

\* FetchShader::FetchShader: m_fetchDescriptions gets one pointer per fetch.
ConstructDescriptions(mem, o, fetches) ==
  [k \in DOMAIN fetches |-> findVertexInputDescription(mem, o, fetches[k].location)]

\* ----------------------------------------------------------- getString()
\* (mutant) the component bytes are left out of the string
FetchBytes_NoComponent(fetchInfo) ==
  BytesOfUnsigned(fetchInfo.location) \o getTypeName(fetchInfo.ty)

FetchBytes(fetchInfo) ==
  BytesOfUnsigned(fetchInfo.location) \o BytesOfUnsigned(fetchInfo.component)
    \o getTypeName(fetchInfo.ty)

\* (mutant) the pointer itself is appended instead of the object it points to
DescriptionBytes_Pointer(mem, description) ==
  IF description = 0 THEN <<0>> ELSE BytesOfUnsigned(description)

DescriptionBytes(mem, description) ==
  IF description = 0 THEN <<0>> ELSE BytesOfDescription(mem[description])

\* The string getString() builds when m_shaderString is empty.
BuildShaderString(mem, fetches, regInfo, descriptions) ==
  Concat([k \in DOMAIN fetches |-> FetchBytes(fetches[k])])
    \o BytesOfRegInfo(regInfo)
    \o Concat([k \in DOMAIN descriptions |-> DescriptionBytes(mem, descriptions[k])])

\* (mutant) the string is appended to on every call
getString_Rebuild(o) ==
  /\ m_shaderString' =
       [m_shaderString EXCEPT ![o] =
          @ \o BuildShaderString(heap, m_fetches[o], m_vsEntryRegInfo[o],
                                 m_fetchDescriptions[o])]
  /\ UNCHANGED <<heap, m_fetches, m_fetchDescriptions, m_vsEntryRegInfo>>

getString(o) ==
  /\ m_shaderString' =
       [m_shaderString EXCEPT ![o] =
          IF m_shaderString[o] = <<>>
          THEN BuildShaderString(heap, m_fetches[o], m_vsEntryRegInfo[o],
                                 m_fetchDescriptions[o])
          ELSE m_shaderString[o]]
  /\ UNCHANGED <<heap, m_fetches, m_fetchDescriptions, m_vsEntryRegInfo>>

\* ------------------------------------------------------------ copy shader
MaxGsStreams == 4
Streams == 0..(MaxGsStreams - 1)

\* Built-in ids (BuiltInKind).
BuiltInPosition == 0
BuiltInPointSize == 1
BuiltInClipDistance == 3
BuiltInCullDistance == 4
BuiltInPrimitiveId == 7
BuiltInLayer == 9
BuiltInViewportIndex == 10
BuiltInViewIndex == 4440

ShaderStageCopyShader == 6

\* GsOutLocInfo::u32All: location in bits 0..15, isBuiltIn in bit 16, streamId
\* in bits 17..18.
GsOutLocInfo(location, isBuiltIn, stream) ==
  (location % 65536) + (IF isBuiltIn THEN 65536 ELSE 0) + 131072 * (stream % 4)

\* reinterpret_cast<GsOutLocInfo*>(&key)->streamId
StreamIdOf(key) == (key \div 131072) % 4

\* XfbOutInfo
XfbOutInfo(xfbBuffer, xfbOffset, xfbExtraOffset, is16bit) ==
  [xfbBuffer |-> xfbBuffer, xfbOffset |-> xfbOffset,
   xfbExtraOffset |-> xfbExtraOffset, is16bit |-> is16bit]

\* A call of the generic output export in the module of the geometry shader:
\* operands (location, component index, stream id, value), the value's component
\* width and count, and whether the call is in the geometry entry point.
GsExport(location, compIdx, stream, bitWidth, compCount, inEntry) ==
  [location |-> location, compIdx |-> compIdx, streamId |-> stream,
   bitWidth |-> bitWidth, compCount |-> compCount, inEntry |-> inEntry]

\* Types of the values the copy shader loads and exports.
ValTy(shape, elem, count) == [shape |-> shape, elem |-> elem, count |-> count]

\* A value: where it comes from ("ring": loaded for a location of a stream;
\* "const": a constant vector), its type, and the conversions applied to it.
Val(src, loc, stream, ty, conv) ==
  [src |-> src, loc |-> loc, stream |-> stream, ty |-> ty, conv |-> conv]
NoVal == Val("none", 0, 0, ValTy("none", "none", 0), "none")

\* An instruction of the copy shader: its block ("" when it is in no block), its
\* opcode, the location or built-in id and the stream it is emitted for, its
\* value operand and three integer operands.
CI(blk, op, loc, stream, val, a) ==
  [blk |-> blk, op |-> op, loc |-> loc, stream |-> stream, val |-> val, a |-> a]

\* builder.CreateBr(target) at the end of a block.
Br(blk, target) == CI(blk, "br", 0, 0, NoVal, <<0, 0, 0>>) @@ [target |-> target]

InBlock(blk, seq) == [i \in DOMAIN seq |-> [seq[i] EXCEPT !.blk = blk]]

RECURSIVE SortedSeq(_)
SortedSeq(S) ==
  IF S = {} THEN <<>>
  ELSE LET m == CHOOSE x \in S : \A y \in S : x <= y
       IN  <<m>> \o SortedSeq(S \ {m})

RECURSIVE SumSeq(_)
SumSeq(q) == IF q = <<>> THEN 0 ELSE Head(q) + SumSeq(Tail(q))

\* ---- CollectGsGenericOutputInfo
\* (mutant) the byte size is taken from the declared width, without widening
ComponentByteSize_Unwidened(bitWidth, compCount) == (bitWidth \div 8) * compCount

\* The byte size recorded for a component: 8-bit and 16-bit are widened to a
\* dword.
ComponentByteSize(bitWidth, compCount) ==
  ((IF bitWidth < 32 THEN 32 ELSE bitWidth) \div 8) * compCount

\* genericOutByteSizes[streamId][location].resize(4), then [compIdx] = byteSize
RecordByteSize(sizes, stream, location, compIdx, byteSize) ==
  LET k == <<stream, location>>
      old == IF k \in DOMAIN sizes THEN sizes[k] ELSE <<0, 0, 0, 0>>
  IN  [x \in DOMAIN sizes \cup {k} |->
         IF x = k THEN [old EXCEPT ![compIdx + 1] = byteSize] ELSE sizes[x]]

\* (mutant) a call whose key is not in the map is recorded at its own location
ScanCall_RecordUnmapped(sizes, outputLocMap, call) ==
  LET key == GsOutLocInfo(call.location, FALSE, call.streamId)
  IN  IF ~call.inEntry THEN sizes
      ELSE RecordByteSize(sizes, call.streamId,
                          IF key \in DOMAIN outputLocMap THEN outputLocMap[key]
                          ELSE call.location,
                          call.compIdx, ComponentByteSize(call.bitWidth, call.compCount))

\* One user of the export function, as the scan treats it.
ScanCall(sizes, outputLocMap, call) ==
  LET key == GsOutLocInfo(call.location, FALSE, call.streamId)
  IN  IF ~call.inEntry THEN sizes
      ELSE IF key \notin DOMAIN outputLocMap THEN sizes
      ELSE RecordByteSize(sizes, call.streamId, outputLocMap[key], call.compIdx,
                          ComponentByteSize(call.bitWidth, call.compCount))

RECURSIVE CollectGsGenericOutputInfo(_, _, _)
CollectGsGenericOutputInfo(sizes, outputLocMap, calls) ==
  IF calls = <<>> THEN sizes
  ELSE CollectGsGenericOutputInfo(ScanCall(sizes, outputLocMap, Head(calls)),
                                  outputLocMap, Tail(calls))

\* ---- LoadValueFromGsVsRing
ElemCount(ty) == IF ty.shape = "scalar" THEN 1 ELSE ty.count

\* An unsigned 32-bit number, kept as <<high 16 bits, low 16 bits>>.
U32(n) == <<(n \div 65536) % 65536, n % 65536>>

\* a + b modulo 2^32
Add32(a, b) ==
  LET lo == a[2] + b[2]
  IN  <<(a[1] + b[1] + (lo \div 65536)) % 65536, lo % 65536>>

\* a * k modulo 2^32, for k < 2^15
Mul32(a, k) ==
  LET lo == a[2] * k
  IN  <<(a[1] * k + (lo \div 65536)) % 65536, lo % 65536>>

\* (mutant) the component index is left out of the offset
CalcGsVsRingOffsetForInput_NoComponent(p, location, compIdx) ==
  IF p.isGsOnChip
  THEN Add32(p.esGsLdsSize, U32(location * 4))
  ELSE Mul32(Mul32(U32(location * 4), 64), p.outputVertices)

\* CalcGsVsRingOffsetForInput: the constant added to the (scaled) vertex
\* offset, in unsigned 32-bit arithmetic.
CalcGsVsRingOffsetForInput(p, location, compIdx) ==
  IF p.isGsOnChip
  THEN Add32(p.esGsLdsSize, U32(location * 4 + compIdx))
  ELSE Mul32(Mul32(U32(location * 4 + compIdx), 64), p.outputVertices)

\* The instructions of one load and the value they define.  a = <<element,
\* constant part of the offset, factor of the vertex offset>>; for the import
\* call of NGG a = <<location, 0, streamId>>.
RingValue(ty, location, stream) == Val("ring", location, stream, ty, "none")

LoadValueFromGsVsRing(p, ty, location, stream) ==
  LET v == RingValue(ty, location, stream)
  IN  IF p.enableNgg
      THEN <<CI("", "ngg.import", location, stream, v, <<location, 0, stream>>)>>
      ELSE IF p.isGsOnChip
      THEN <<CI("", "lds.load", location, stream, v,
                <<0, CalcGsVsRingOffsetForInput(p, location, 0), 1>>)>>
      ELSE [i \in 1..ElemCount(ty) |->
              CI("", "buffer.load", location, stream, v,
                 <<i - 1,
                   CalcGsVsRingOffsetForInput(p, location + ((i - 1) \div 4), (i - 1) % 4),
                   4>>)]

\* ---- ExportGenericOutput
\* The 16-bit value made of a 32-bit one, and the instructions that make it: a
\* vector of more than one component is converted by three instructions in the
\* block; otherwise only the first cast is created through the builder.
NarrowedTy(ty) ==
  IF ElemCount(ty) > 1 THEN ValTy("vector", "half", ElemCount(ty))
  ELSE ValTy("scalar", "half", 1)

Narrowed(val) == [val EXCEPT !.ty = NarrowedTy(val.ty), !.conv = "trunc16"]

NarrowCode(val, location, stream) ==
  IF ElemCount(val.ty) > 1
  THEN << CI("", "bitcast", location, stream, val, <<32, 0, 0>>),
          CI("", "trunc", location, stream, val, <<16, 0, 0>>),
          CI("", "bitcast", location, stream, Narrowed(val), <<16, 0, 0>>) >>
  ELSE << CI("", "bitcast", location, stream, val, <<32, 0, 0>>) >>

\* find_if over outLocMap (in key order): the first key mapped to `location`
\* whose stream id is `stream`; -1 is end().
FindOutLoc(outputLocMap, location, stream) ==
  LET K == {k \in DOMAIN outputLocMap :
              outputLocMap[k] = location /\ StreamIdOf(k) = stream}
  IN  IF K = {} THEN -1 ELSE CHOOSE k \in K : \A j \in K : k <= j

\* `if (pXfbOutInfo->is16bit)`
NeedsNarrowing(info) == info.is16bit

\* The value ExportGenericOutput holds in pOutputValue after its transform
\* feedback part.
GenericValueAfterXfb(p, val, location, stream) ==
  LET key == FindOutLoc(p.outputLocMap, location, stream)
  IN  IF p.enableXfb /\ key \in DOMAIN p.xfbOutsInfo /\ NeedsNarrowing(p.xfbOutsInfo[key])
      THEN Narrowed(val) ELSE val

\* The transform feedback part of ExportGenericOutput.
GenericXfbCode(p, val, location, stream) ==
  LET key == FindOutLoc(p.outputLocMap, location, stream)
  IN  IF p.enableXfb /\ key \in DOMAIN p.xfbOutsInfo
      THEN LET info == p.xfbOutsInfo[key]
           IN  (IF NeedsNarrowing(info) THEN NarrowCode(val, location, stream) ELSE <<>>)
                 \o <<CI("", "export.xfb", location, stream,
                         GenericValueAfterXfb(p, val, location, stream),
                         <<info.xfbBuffer, info.xfbOffset, info.xfbExtraOffset>>)>>
      ELSE <<>>

\* (mutant) every stream is taken for the raster stream
IsRasterStream_Always(p, stream) == TRUE

\* `if (pResUsage->inOutUsage.gs.rasterStream == streamId)`
IsRasterStream(p, stream) == p.rasterStream = stream

ExportGenericOutput(p, val, location, stream) ==
  GenericXfbCode(p, val, location, stream)
    \o (IF IsRasterStream(p, stream)
        THEN <<CI("", "export.generic", location, stream,
                  GenericValueAfterXfb(p, val, location, stream), <<location, 0, 0>>)>>
        ELSE <<>>)

\* assert(locIter != outLocMap.end())
GenericAsserts(p, location, stream) ==
  IF p.enableXfb /\ FindOutLoc(p.outputLocMap, location, stream) = -1
  THEN {"locIter != outLocMap.end()"} ELSE {}

\* ---- ExportBuiltInOutput
ExportBuiltInOutput(p, val, builtInId, stream) ==
  LET key == GsOutLocInfo(builtInId, TRUE, stream)
  IN  (IF p.enableXfb /\ key \in DOMAIN p.xfbOutsInfo
       THEN <<CI("", "export.xfb.builtin", builtInId, stream, val,
                 <<p.xfbOutsInfo[key].xfbBuffer, p.xfbOutsInfo[key].xfbOffset, 0>>)>>
       ELSE <<>>)
      \o (IF IsRasterStream(p, stream)
          THEN <<CI("", "export.builtin", builtInId, stream, val, <<builtInId, 0, 0>>)>>
          ELSE <<>>)

\* ---- ExportOutput
\* The locations genericOutByteSizes[streamId] holds.
GenericLocations(sizes, stream) == SortedSeq({k[2] : k \in {x \in DOMAIN sizes : x[1] = stream}})

ExportGenerics(p, sizes, stream) ==
  LET locs == GenericLocations(sizes, stream)
  IN  Concat([i \in DOMAIN locs |->
        LET byteSize == SumSeq(sizes[<<stream, locs[i]>>])
            ty == ValTy("vector", "float", byteSize \div 4)
        IN  LoadValueFromGsVsRing(p, ty, locs[i], stream)
              \o ExportGenericOutput(p, RingValue(ty, locs[i], stream), locs[i], stream)])

\* assert(byteSize % 4 == 0)
ByteSizeAsserts(sizes, stream) ==
  IF \E k \in DOMAIN sizes : k[1] = stream /\ SumSeq(sizes[k]) % 4 # 0
  THEN {"byteSize % 4 == 0"} ELSE {}

\* builtInPairs
BuiltInPairs(p) ==
  LET u == p.builtInUsage
  IN  (IF u.position THEN <<<<BuiltInPosition, ValTy("vector", "float", 4)>>>> ELSE <<>>)
   \o (IF u.pointSize THEN <<<<BuiltInPointSize, ValTy("scalar", "float", 1)>>>> ELSE <<>>)
   \o (IF u.clipDistance > 0
       THEN <<<<BuiltInClipDistance, ValTy("array", "float", u.clipDistance)>>>> ELSE <<>>)
   \o (IF u.cullDistance > 0
       THEN <<<<BuiltInCullDistance, ValTy("array", "float", u.cullDistance)>>>> ELSE <<>>)
   \o (IF u.primitiveId THEN <<<<BuiltInPrimitiveId, ValTy("scalar", "i32", 1)>>>> ELSE <<>>)
   \o (IF u.layer \/ p.enableMultiView
       THEN <<<<IF p.enableMultiView THEN BuiltInViewIndex ELSE BuiltInLayer,
                ValTy("scalar", "i32", 1)>>>> ELSE <<>>)
   \o (IF u.viewportIndex THEN <<<<BuiltInViewportIndex, ValTy("scalar", "i32", 1)>>>> ELSE <<>>)

\* builtInOutputLocMap[builtInId]: a missing entry is created with 0.
BuiltInLoc(p, builtInId) ==
  IF builtInId \in DOMAIN p.builtInOutputLocMap THEN p.builtInOutputLocMap[builtInId] ELSE 0

ExportBuiltIns(p, stream) ==
  LET pairs == BuiltInPairs(p)
  IN  Concat([i \in DOMAIN pairs |->
        LET loc == BuiltInLoc(p, pairs[i][1])
        IN  LoadValueFromGsVsRing(p, pairs[i][2], loc, stream)
              \o ExportBuiltInOutput(p, RingValue(pairs[i][2], loc, stream), pairs[i][1], stream)])

\* assert(builtInOutputLocMap.find(builtInId) != end())
BuiltInAsserts(p) ==
  IF \E i \in DOMAIN BuiltInPairs(p) : BuiltInPairs(p)[i][1] \notin DOMAIN p.builtInOutputLocMap
  THEN {"builtInOutputLocMap.find(builtInId) != end()"} ELSE {}

\* The constant vec4(0, 0, 0, 1).
DummyPosition == Val("const", 0, 0, ValTy("vector", "float", 4), "0,0,0,1")

\* `if (enableXfb && (builtInUsage.position == false))`
NeedsDummyPosition(p) == p.enableXfb /\ (p.builtInUsage.position = FALSE)

ExportDummyPosition(p, stream) ==
  IF NeedsDummyPosition(p)
  THEN ExportBuiltInOutput(p, DummyPosition, BuiltInPosition, stream)
  ELSE <<>>

\* ExportOutput(streamId, builder): the instructions it inserts.
ExportOutput(p, sizes, stream) ==
  ExportGenerics(p, sizes, stream) \o ExportBuiltIns(p, stream) \o ExportDummyPosition(p, stream)

\* The assertions of ExportOutput and its callees that do not hold.
ExportAsserts(p, sizes, stream) ==
  ByteSizeAsserts(sizes, stream) \cup BuiltInAsserts(p)
    \cup UNION {GenericAsserts(p, k[2], stream) : k \in {x \in DOMAIN sizes : x[1] = stream}}

\* ---- runOnModule
\* InvalidValue is ~0u; as a 32-bit two's complement integer that is -1.
InvalidValue == -1

\* (mutant) the mask is replaced by the bit
SetBit_Replace(mask, bit) == 2 ^ bit

\* mask | (1U << bit)
SetBit(mask, bit) == IF (mask \div (2 ^ bit)) % 2 = 1 THEN mask ELSE mask + 2 ^ bit

\* The streams with outLocCount > 0.
ActiveStreams(p) == {i \in Streams : p.outLocCount[i] > 0}

\* outputStreamCount after the loop over the streams
OutputStreamCount(p) == Cardinality(ActiveStreams(p))

\* outputStreamId after the loop over the streams: the first active stream
FirstOutputStreamId(p) ==
  IF ActiveStreams(p) = {} THEN InvalidValue
  ELSE CHOOSE i \in ActiveStreams(p) : \A j \in ActiveStreams(p) : i <= j

\* (mutant) the switch is made for several streams whether or not transform
\* feedback is enabled
NeedsSwitch_NoXfbTest(p) == OutputStreamCount(p) > 1

\* `if ((outputStreamCount > 1) && pResUsage->inOutUsage.enableXfb)`
NeedsSwitch(p) == (OutputStreamCount(p) > 1) /\ p.enableXfb

\* `outputStreamId = (outputStreamCount == 0) ? 0 : outputStreamId`
SingleStreamId(p) == IF OutputStreamCount(p) = 0 THEN 0 ELSE FirstOutputStreamId(p)

BlockName(stream) ==
  CASE stream = 0 -> ".stream0" [] stream = 1 -> ".stream1"
    [] stream = 2 -> ".stream2" [] stream = 3 -> ".stream3"

CopyIdle ==
  /\ pipeline = [hasGs |-> FALSE]
  /\ genericOutByteSizes = <<>>
  /\ cpc = "idle"
  /\ code = <<>>
  /\ switchInst = [created |-> FALSE, default |-> "", cases |-> <<>>, reserved |-> 0]
  /\ streamId = 0
  /\ outputStreamId = InvalidValue
  /\ failed = {}
  /\ copyOut = [retval |-> "none", shaderStageMask |-> 0, functions |-> <<>>,
                copyShaderStreamOutTable |-> 0, copyShaderEsGsLdsSize |-> 0,
                lds |-> FALSE, gsVsRingBufDesc |-> FALSE]

\* runOnModule when the module has no geometry shader.
NoGeometryShader ==
  /\ cpc = "start" /\ ~pipeline.hasGs
  /\ cpc' = "done"
  /\ copyOut' = [copyOut EXCEPT !.retval = "false"]
  /\ UNCHANGED <<pipeline, genericOutByteSizes, code, switchInst, streamId,
                 outputStreamId, failed>>
  /\ UNCHANGED <<fetchVars, genVars>>

\* runOnModule: CollectGsGenericOutputInfo(pGsEntryPoint).
Collect ==
  /\ cpc = "start" /\ pipeline.hasGs
  /\ genericOutByteSizes' =
       CollectGsGenericOutputInfo(genericOutByteSizes, pipeline.outputLocMap,
                                  pipeline.gsExports)
  /\ cpc' = "collected"
  /\ UNCHANGED <<pipeline, code, switchInst, streamId, outputStreamId, failed, copyOut>>
  /\ UNCHANGED <<fetchVars, genVars>>

\* module.getFunctionList().insert(insertPos, pEntryPoint)
InsertEntryPoint(functions) ==
  IF \E i \in DOMAIN functions : functions[i] = "fs"
  THEN LET i == CHOOSE j \in DOMAIN functions : functions[j] = "fs"
       IN  SubSeq(functions, 1, i - 1) \o <<"copy_shader">>
             \o SubSeq(functions, i, Len(functions))
  ELSE functions \o <<"copy_shader">>

\* runOnModule: the entry point, its two blocks, the user data indices, the LDS
\* variable or the ring buffer descriptor, and the count of the streams.
CreateEntryPoint ==
  /\ cpc = "collected"
  /\ copyOut' =
       [copyOut EXCEPT
          !.functions = InsertEntryPoint(@),
          !.copyShaderStreamOutTable = IF pipeline.gfxMajor <= 8 THEN 2 ELSE 3,
          !.copyShaderEsGsLdsSize = IF pipeline.gfxMajor <= 8 THEN 3 ELSE 2,
          !.lds = pipeline.isGsOnChip,
          !.gsVsRingBufDesc = ~pipeline.isGsOnChip]
  /\ code' = <<CI(".end", "ret", 0, 0, NoVal, <<0, 0, 0>>)>>
               \o (IF pipeline.isGsOnChip THEN <<>>
                   ELSE <<CI(".entry", "ring.desc.load", 0, 0, NoVal, <<0, 0, 0>>)>>)
  /\ outputStreamId' = FirstOutputStreamId(pipeline)
  /\ cpc' = "created"
  /\ UNCHANGED <<pipeline, genericOutByteSizes, switchInst, streamId, failed>>
  /\ UNCHANGED <<fetchVars, genVars>>

\* runOnModule: the stream id is extracted and the switch is created.
BeginSwitch ==
  /\ cpc = "created" /\ NeedsSwitch(pipeline)
  /\ code' = code \o << CI(".entry", "ubfe", 0, 0, NoVal, <<24, 2, 0>>),
                        CI(".entry", "switch", 0, 0, NoVal, <<0, 0, 0>>) >>
  /\ switchInst' = [created |-> TRUE, default |-> ".end", cases |-> <<>>,
                    reserved |-> OutputStreamCount(pipeline)]
  /\ streamId' = 0
  /\ cpc' = "switch"
  /\ UNCHANGED <<pipeline, genericOutByteSizes, outputStreamId, failed, copyOut>>
  /\ UNCHANGED <<fetchVars, genVars>>

\* runOnModule: one iteration of the loop over the streams.
SwitchStream ==
  /\ cpc = "switch" /\ streamId < MaxGsStreams
  /\ IF pipeline.outLocCount[streamId] > 0
     THEN /\ switchInst' = [switchInst EXCEPT
                              !.cases = Append(@, <<streamId, BlockName(streamId)>>)]
          /\ code' = code
               \o InBlock(BlockName(streamId),
                          ExportOutput(pipeline, genericOutByteSizes, streamId))
               \o <<Br(BlockName(streamId), ".end")>>
          /\ failed' = failed \cup ExportAsserts(pipeline, genericOutByteSizes, streamId)
     ELSE UNCHANGED <<switchInst, code, failed>>
  /\ streamId' = streamId + 1
  /\ UNCHANGED <<pipeline, genericOutByteSizes, cpc, outputStreamId, copyOut>>
  /\ UNCHANGED <<fetchVars, genVars>>

\* runOnModule: the loop over the streams ends.
EndSwitch ==
  /\ cpc = "switch" /\ streamId = MaxGsStreams
  /\ cpc' = "exported"
  /\ UNCHANGED <<pipeline, genericOutByteSizes, code, switchInst, streamId,
                 outputStreamId, failed, copyOut>>
  /\ UNCHANGED <<fetchVars, genVars>>

\* runOnModule: the export without a switch.
ExportSingle ==
  /\ cpc = "created" /\ ~NeedsSwitch(pipeline)
  /\ outputStreamId' = SingleStreamId(pipeline)
  /\ code' = code
       \o InBlock(".entry", ExportOutput(pipeline, genericOutByteSizes,
                                         SingleStreamId(pipeline)))
       \o <<Br(".entry", ".end")>>
  /\ failed' = failed \cup ExportAsserts(pipeline, genericOutByteSizes,
                                         SingleStreamId(pipeline))
  /\ cpc' = "exported"
  /\ UNCHANGED <<pipeline, genericOutByteSizes, switchInst, streamId, copyOut>>
  /\ UNCHANGED <<fetchVars, genVars>>

\* runOnModule: the stage metadata, the stage mask, return true.
FinishCopyShader ==
  /\ cpc = "exported"
  /\ copyOut' = [copyOut EXCEPT
                   !.shaderStageMask = SetBit(@, ShaderStageCopyShader),
                   !.retval = "true"]
  /\ cpc' = "done"
  /\ UNCHANGED <<pipeline, genericOutByteSizes, code, switchInst, streamId,
                 outputStreamId, failed>>
  /\ UNCHANGED <<fetchVars, genVars>>

\* Values of the generated IR.
Arg(i) == [k |-> "arg", v |-> i]
Inst(id) == [k |-> "inst", v |-> id]
Const(c) == [k |-> "const", v |-> c]
Undef == [k |-> "undef", v |-> 0]

\* --------------------------------------------------------------- SpecKey
GenIdle ==
  /\ fpc = "idle" /\ fetchFunc = [params |-> <<>>, retTys |-> <<>>, cc |-> 0]
  /\ insts = <<>> /\ decls = <<>> /\ nextId = 1 /\ idx = 0
  /\ result = Undef /\ created = 0 /\ resolved = 0

InitKey ==
  /\ \E f1 \in FetchLists, f2 \in FetchLists, r \in RegInfos, tab \in InputTables :
       /\ heap = HeapOf(tab, tab)
       /\ m_fetches = [o \in Objects |-> IF o = 1 THEN f1 ELSE f2]
       /\ m_vsEntryRegInfo = [o \in Objects |-> r]
       /\ m_fetchDescriptions =
            [o \in Objects |->
               ConstructDescriptions(HeapOf(tab, tab), o, IF o = 1 THEN f1 ELSE f2)]
  /\ m_shaderString = [o \in Objects |-> <<>>]
  /\ GenIdle
  /\ CopyIdle

GetStringCall == \E o \in Objects : getString(o) /\ UNCHANGED <<genVars, copyVars>>

NextKey == GetStringCall

SpecKey == InitKey /\ [][NextKey]_vars

\* ------------------------------------------------ the generated function
\* An instruction: its id (the value it defines), opcode, operands, an index
\* (struct index of an insertvalue) and the fetch it was emitted for (-1: none).
Ins(id, op, ops, n, fetch) == [id |-> id, op |-> op, ops |-> ops, n |-> n, fetch |-> fetch]

\* A placeholder declaration: its name prefix and the kind its calls pass as
\* argument 0.
SpecialUserData == "lgc.special.user.data"
ShaderInput == "lgc.shader.input"
Decl(prefix, kind) == [prefix |-> prefix, kind |-> kind]
VertexBufferTableDecl == Decl(SpecialUserData, "VertexBufferTable")
BaseVertexDecl == Decl(SpecialUserData, "BaseVertex")
BaseInstanceDecl == Decl(SpecialUserData, "BaseInstance")
VertexIdDecl == Decl(ShaderInput, "VertexId")
InstanceIdDecl == Decl(ShaderInput, "InstanceId")
\* A special user data kind that generate() has no case for.
DrawIndexDecl == Decl(SpecialUserData, "DrawIndex")

\* getVgprTy: the VGPR (floating point) type a fetched value is returned in.
getVgprTy(ty) == [vec |-> ty.vec * (IF ty.bits = 64 THEN 2 ELSE 1), elem |-> "f", bits |-> 32]

Int32Ty == Ty(1, "i", 32)
FloatTy == Ty(1, "f", 32)

\* createFetchFunc: the `types` list, which is the return struct's field list.
StructTypes(regInfo, fetches) ==
  [i \in 1..regInfo.sgprCount |-> Int32Ty]
    \o [i \in 1..regInfo.vgprCount |-> FloatTy]
    \o [k \in DOMAIN fetches |-> getVgprTy(fetches[k].ty)]

\* (mutant) every parameter is marked inreg
EntryParams_AllInReg(regInfo, types) ==
  [i \in 1..(regInfo.sgprCount + regInfo.vgprCount) |-> [ty |-> types[i], inreg |-> TRUE]]

\* createFetchFunc: the parameters are the first sgprCount + vgprCount types,
\* the SGPR ones marked inreg.
EntryParams(regInfo, types) ==
  [i \in 1..(regInfo.sgprCount + regInfo.vgprCount) |->
     [ty |-> types[i], inreg |-> i <= regInfo.sgprCount]]

mergedWaveInfoSgpr == 3

\* createFetchFunc: the lane-enable call of a merged shader's first half.
InitExec(regInfo, id) ==
  IF regInfo.callingConv \in {AMDGPU_HS, AMDGPU_GS}
  THEN <<Ins(id, "init.exec", <<Arg(mergedWaveInfoSgpr), Const(0)>>, 0, -1)>>
  ELSE <<>>

\* (mutant) field i is given argument i + 1
PassThrough_OffByOne(n, first) ==
  [i \in 1..n |->
     Ins(first + i - 1, "insertvalue",
         <<IF i = 1 THEN Undef ELSE Inst(first + i - 2), Arg(i)>>, i - 1, -1)]

\* createFetchFunc: the insertvalue chain that copies argument i to field i,
\* starting at instruction id `first`.
PassThrough(n, first) ==
  [i \in 1..n |->
     Ins(first + i - 1, "insertvalue",
         <<IF i = 1 THEN Undef ELSE Inst(first + i - 2), Arg(i - 1)>>, i - 1, -1)]

\* createFetchFunc: the body on return: lane enable, pass-through copy, ret.
FetchFuncBody(regInfo) ==
  LET ie == InitExec(regInfo, 1)
      n == regInfo.sgprCount + regInfo.vgprCount
      first == 1 + Len(ie)
      retVal == IF n = 0 THEN Undef ELSE Inst(first + n - 1)
  IN  ie \o PassThrough(n, first) \o <<Ins(first + n, "ret", <<retVal>>, 0, -1)>>

\* BuilderBase(ret): new instructions go right before the return.
InsertBeforeRet(body, new) == SubSeq(body, 1, Len(body) - 1) \o new \o <<body[Len(body)]>>

\* SetInsertPoint(front().getFirstInsertionPt()): new instructions go first.
InsertAtFront(body, new) == new \o body

\* The placeholder sets a fetchVertex call leaves behind: a per-vertex and a
\* per-instance attribute, one read at a constant index, and one that uses a
\* kind generate() does not expect.
PlaceholderSets ==
  { <<VertexBufferTableDecl, BaseVertexDecl, VertexIdDecl>>,
    <<VertexBufferTableDecl, BaseInstanceDecl, InstanceIdDecl>>,
    <<VertexBufferTableDecl>>,
    <<VertexBufferTableDecl, DrawIndexDecl>> }

\* VertexFetch::fetchVertex: calls of placeholder declarations, then the load
\* sequence that uses them; instruction ids start at `first`.
fetchVertex(fetchIdx, placeholders, first) ==
  [j \in 1..Len(placeholders) |->
     Ins(first + j - 1, "call", <<Const(0)>>, 0, fetchIdx)
       @@ [callee |-> placeholders[j]]]
    \o <<Ins(first + Len(placeholders), "load",
             [j \in 1..Len(placeholders) |-> Inst(first + j - 1)], 0, fetchIdx)
           @@ [callee |-> Decl("", "")]>>

\* Module::getOrInsertFunction: a declaration is added once, in creation order.
AddDecls(ds, placeholders) ==
  ds \o SelectSeq(placeholders, LAMBDA d : d \notin Range(ds))

WithCallee(seq) == [i \in DOMAIN seq |-> seq[i] @@ [callee |-> Decl("", "")]]

\* (mutant) the fetch is made whether or not a description exists
IsBound_Always(description) == TRUE

\* generate(): `if (description)`.
IsBound(description) == description # 0

\* generate() up to the fetch loop: createFetchFunc, the return's operand.
GenerateBegin ==
  /\ fpc = "idle"
  /\ LET r == m_vsEntryRegInfo[1]
         types == StructTypes(r, m_fetches[1])
         body == WithCallee(FetchFuncBody(r))
     IN  /\ fetchFunc' = [params |-> EntryParams(r, types), retTys |-> types,
                          cc |-> r.callingConv]
         /\ insts' = body
         /\ nextId' = Len(body) + 1
         /\ result' = body[Len(body)].ops[1]
  /\ decls' = <<>> /\ idx' = 0 /\ created' = 0 /\ resolved' = 0
  /\ fpc' = "loop"
  /\ UNCHANGED <<fetchVars, copyVars>>

\* One iteration of the fetch loop.
ProcessFetch ==
  /\ fpc = "loop" /\ idx # Len(m_fetches[1])
  /\ LET r == m_vsEntryRegInfo[1]
         description == m_fetchDescriptions[1][idx + 1]
         structIdx == idx + r.sgprCount + r.vgprCount
     IN  IF IsBound(description)
         THEN \E ph \in PlaceholderSets :
                LET fv == fetchVertex(idx, ph, nextId)
                    vertex == Inst(nextId + Len(fv) - 1)
                    castId == nextId + Len(fv)
                    cast == Ins(castId, "bitcast", <<vertex>>, 0, idx)
                    ins == Ins(castId + 1, "insertvalue", <<result, Inst(castId)>>,
                               structIdx, idx)
                IN  /\ insts' = InsertBeforeRet(insts, fv \o WithCallee(<<cast, ins>>))
                    /\ decls' = AddDecls(decls, ph)
                    /\ nextId' = castId + 2
                    /\ result' = Inst(castId + 1)
                    /\ created' = created + Len(ph)
         ELSE UNCHANGED <<insts, decls, nextId, result, created>>
  /\ idx' = idx + 1
  /\ UNCHANGED <<fpc, fetchFunc, resolved>>
  /\ UNCHANGED <<fetchVars, copyVars>>

\* After the loop: ret->setOperand(0, result).
SetReturnOperand ==
  /\ fpc = "loop" /\ idx = Len(m_fetches[1])
  /\ insts' = [insts EXCEPT ![Len(insts)].ops = <<result>>]
  /\ fpc' = "resolve"
  /\ UNCHANGED <<fetchFunc, decls, nextId, idx, result, created, resolved>>
  /\ UNCHANGED <<fetchVars, copyVars>>

\* (mutant) only special-user-data declarations are hooked up
IsPlaceholderDecl_UserDataOnly(d) == d.prefix = SpecialUserData

\* generate(): the declarations whose calls are replaced.
IsPlaceholderDecl(d) == d.prefix = SpecialUserData \/ d.prefix = ShaderInput

IsCallOf(i, d) == i.op = "call" /\ i.callee = d

\* The calls of placeholder declarations still in the function.
PlaceholderCalls(body) ==
  {i \in Range(body) : i.op = "call" /\ i.callee.prefix \in {SpecialUserData, ShaderInput}}

\* Declarations of the module, in order, that the loop still has uses to replace.
PendingDecls(body, ds) ==
  SelectSeq(ds, LAMBDA d : IsPlaceholderDecl(d) /\ \E i \in Range(body) : IsCallOf(i, d))

\* func.use_begin(): the use list's head is the use added last.
UseBegin(body, d) ==
  CHOOSE c \in Range(body) :
    /\ IsCallOf(c, d)
    /\ \A o \in Range(body) : IsCallOf(o, d) => o.id <= c.id

\* (mutant) the switch has no case for InstanceId
HandledKinds_NoInstanceId == {"VertexBufferTable", "BaseVertex", "BaseInstance", "VertexId"}

\* The cases of the switch on the call's argument 0.
HandledKinds == {"VertexBufferTable", "BaseVertex", "BaseInstance", "VertexId", "InstanceId"}

\* (mutant) BaseVertex and BaseInstance read each other's slot
Replacement_SwappedBase(regInfo, kind, id) ==
  CASE kind = "VertexBufferTable" ->
         [new |-> <<Ins(id, "extend", <<Arg(regInfo.vertexBufferTable), Const(0)>>, 0, -1)>>,
          val |-> Inst(id)]
    [] kind = "BaseVertex" -> [new |-> <<>>, val |-> Arg(regInfo.baseInstance)]
    [] kind = "BaseInstance" -> [new |-> <<>>, val |-> Arg(regInfo.baseVertex)]
    [] kind = "VertexId" ->
         [new |-> <<Ins(id, "bitcast", <<Arg(regInfo.sgprCount + regInfo.vertexId)>>, 0, -1)>>,
          val |-> Inst(id)]
    [] kind = "InstanceId" ->
         [new |-> <<Ins(id, "bitcast", <<Arg(regInfo.sgprCount + regInfo.instanceId)>>, 0, -1)>>,
          val |-> Inst(id)]

\* The instructions the replacement of a call of `kind` needs, emitted at the
\* function's first insertion point, and the replacing value.
Replacement(regInfo, kind, id) ==
  CASE kind = "VertexBufferTable" ->
         [new |-> <<Ins(id, "extend", <<Arg(regInfo.vertexBufferTable), Const(0)>>, 0, -1)>>,
          val |-> Inst(id)]
    [] kind = "BaseVertex" -> [new |-> <<>>, val |-> Arg(regInfo.baseVertex)]
    [] kind = "BaseInstance" -> [new |-> <<>>, val |-> Arg(regInfo.baseInstance)]
    [] kind = "VertexId" ->
         [new |-> <<Ins(id, "bitcast", <<Arg(regInfo.sgprCount + regInfo.vertexId)>>, 0, -1)>>,
          val |-> Inst(id)]
    [] kind = "InstanceId" ->
         [new |-> <<Ins(id, "bitcast", <<Arg(regInfo.sgprCount + regInfo.instanceId)>>, 0, -1)>>,
          val |-> Inst(id)]

\* call->replaceAllUsesWith(replacement)
ReplaceAllUsesWith(body, id, val) ==
  [i \in DOMAIN body |->
     [body[i] EXCEPT !.ops = [j \in DOMAIN @ |-> IF @[j] = Inst(id) THEN val ELSE @[j]]]]

\* call->eraseFromParent()
EraseFromParent(body, id) == SelectSeq(body, LAMBDA i : i.id # id)

\* One iteration of `while (!func.use_empty())` for the first declaration, in
\* module order, that still has uses.
ResolveUse ==
  /\ fpc = "resolve"
  /\ PendingDecls(insts, decls) # <<>>
  /\ Head(PendingDecls(insts, decls)).kind \in HandledKinds
  /\ LET d == Head(PendingDecls(insts, decls))
         call == UseBegin(insts, d)
         rep == Replacement(m_vsEntryRegInfo[1], d.kind, nextId)
     IN  /\ insts' = EraseFromParent(
                       ReplaceAllUsesWith(InsertAtFront(insts, WithCallee(rep.new)),
                                          call.id, rep.val),
                       call.id)
         /\ nextId' = nextId + Len(rep.new)
  /\ resolved' = resolved + 1
  /\ UNCHANGED <<fpc, fetchFunc, decls, idx, result, created>>
  /\ UNCHANGED <<fetchVars, copyVars>>

\* The default case of the switch: llvm_unreachable.  A build with assertions
\* stops with the message ("unreachable"); in a build without them the
\* behaviour is undefined ("undefined").
UnexpectedUse ==
  /\ fpc = "resolve"
  /\ PendingDecls(insts, decls) # <<>>
  /\ Head(PendingDecls(insts, decls)).kind \notin HandledKinds
  /\ fpc' \in {"unreachable", "undefined"}
  /\ UNCHANGED <<fetchFunc, insts, decls, nextId, idx, result, created, resolved>>
  /\ UNCHANGED <<fetchVars, copyVars>>

\* generate() returns the module.
GenerateReturn ==
  /\ fpc = "resolve"
  /\ PendingDecls(insts, decls) = <<>>
  /\ fpc' = "done"
  /\ UNCHANGED <<fetchFunc, insts, decls, nextId, idx, result, created, resolved>>
  /\ UNCHANGED <<fetchVars, copyVars>>

\* --------------------------------------------------------------- SpecGen
InitGen ==
  /\ \E f1 \in FetchLists, r \in RegInfos, tab \in InputTables :
       /\ heap = HeapOf(tab, tab)
       /\ m_fetches = [o \in Objects |-> IF o = 1 THEN f1 ELSE <<>>]
       /\ m_vsEntryRegInfo = [o \in Objects |-> r]
       /\ m_fetchDescriptions =
            [o \in Objects |->
               ConstructDescriptions(HeapOf(tab, tab), o, IF o = 1 THEN f1 ELSE <<>>)]
  /\ m_shaderString = [o \in Objects |-> <<>>]
  /\ GenIdle
  /\ CopyIdle

NextGen ==
  \/ GenerateBegin
  \/ ProcessFetch
  \/ SetReturnOperand
  \/ ResolveUse
  \/ UnexpectedUse
  \/ GenerateReturn
  \/ (getString(1) /\ UNCHANGED <<genVars, copyVars>>)

SpecGen == InitGen /\ [][NextGen]_vars

\* -------------------------------------------------------------- SpecCopy
FetchIdle ==
  /\ heap = <<>>
  /\ m_fetches = [o \in Objects |-> <<>>]
  /\ m_fetchDescriptions = [o \in Objects |-> <<>>]
  /\ m_vsEntryRegInfo = [o \in Objects |-> VsEntryRegInfo(AMDGPU_VS, 4, 2, 0, 1, 2, 0, 1, FALSE)]
  /\ m_shaderString = [o \in Objects |-> <<>>]

\* Hardware and storage the pass is run for.
Target(gfxMajor, isGsOnChip, enableNgg) ==
  [gfxMajor |-> gfxMajor, isGsOnChip |-> isGsOnChip, enableNgg |-> enableNgg]

Targets ==
  { Target(8, FALSE, FALSE), Target(9, TRUE, FALSE),
    Target(10, TRUE, TRUE), Target(10, FALSE, FALSE), Target(10, FALSE, TRUE) }

BuiltInUsage(position, pointSize, clipDistance, cullDistance, primitiveId, layer, viewportIndex) ==
  [position |-> position, pointSize |-> pointSize, clipDistance |-> clipDistance,
   cullDistance |-> cullDistance, primitiveId |-> primitiveId, layer |-> layer,
   viewportIndex |-> viewportIndex]

BuiltInUsages ==
  { BuiltInUsage(FALSE, FALSE, 0, 0, FALSE, FALSE, FALSE),
    BuiltInUsage(TRUE, FALSE, 0, 0, FALSE, FALSE, FALSE),
    BuiltInUsage(TRUE, TRUE, 2, 1, TRUE, TRUE, TRUE) }

\* Locations of the built-ins in the ring.
LocOfBuiltIn ==
  [b \in {BuiltInPosition, BuiltInPointSize, BuiltInClipDistance, BuiltInCullDistance,
          BuiltInPrimitiveId, BuiltInLayer, BuiltInViewportIndex, BuiltInViewIndex} |->
     8 + (b % 16)]

\* Export calls of one stream in a geometry shader: none; one 4-wide 32-bit
\* output; a 16-bit scalar and a 16-bit 2-wide output at two locations.
StreamExports(stream, variant) ==
  CASE variant = 0 -> <<>>
    [] variant = 1 -> <<GsExport(0, 0, stream, 32, 4, TRUE)>>
    [] variant = 2 -> <<GsExport(0, 0, stream, 16, 1, TRUE),
                        GsExport(1, 0, stream, 16, 2, TRUE)>>

ExportVariants == {0, 1, 2}

\* Export calls of one location of stream 0, of every component width, count
\* and index.
WideExports ==
  { GsExport(0, c, 0, bw, n, TRUE) : c \in 0..3, bw \in {8, 16, 32, 64}, n \in 1..4 }

\* Lists of export calls with every kind of call last: alone, after a call to
\* another component, after a call that is not in the entry point, and after a
\* call whose location is not in the output location map.
WideExportLists ==
  {<<c>> : c \in WideExports}
    \cup {<<GsExport(0, 1, 0, 8, 3, TRUE), c>> : c \in WideExports}
    \cup {<<GsExport(0, 2, 0, 8, 1, FALSE), c>> : c \in WideExports}
    \cup {<<GsExport(7, 0, 0, 32, 1, TRUE), c>> : c \in WideExports}

\* Locations the output location map knows, and where it maps them.
MappedLocations == {0, 1}
MapLocation(location) == location + 2

OutputLocMapOf(calls) ==
  LET K == {c \in Range(calls) : c.location \in MappedLocations}
  IN  [k \in {GsOutLocInfo(c.location, FALSE, c.streamId) : c \in K} |->
         MapLocation(k % 65536)]

\* Transform feedback tables: none; every generic output, flagged 16-bit by its
\* type; those and the position of every active stream; those, with the
\* position records flagged 16-bit.
GenericXfb(calls) ==
  LET K == {c \in Range(calls) : c.location \in MappedLocations}
  IN  [k \in {GsOutLocInfo(c.location, FALSE, c.streamId) : c \in K} |->
         LET c == CHOOSE d \in K : GsOutLocInfo(d.location, FALSE, d.streamId) = k
         IN  XfbOutInfo(c.streamId, 16 * c.location, 4, c.bitWidth = 16)]

PositionXfb(active, is16bit) ==
  [k \in {GsOutLocInfo(BuiltInPosition, TRUE, s) : s \in active} |->
     XfbOutInfo(StreamIdOf(k), 64, 8, is16bit)]

XfbVariants == {0, 1, 2, 3}

XfbOutsInfoOf(calls, active, variant) ==
  CASE variant = 0 -> <<>>
    [] variant = 1 -> GenericXfb(calls)
    [] variant = 2 -> GenericXfb(calls) @@ PositionXfb(active, FALSE)
    [] variant = 3 -> GenericXfb(calls) @@ PositionXfb(active, TRUE)

\* The number of output locations of a stream.
OutLocCountOf(calls, active) ==
  [s \in Streams |->
     IF s \notin active THEN 0
     ELSE LET n == Cardinality({c.location : c \in {d \in Range(calls) : d.streamId = s}})
          IN  IF n = 0 THEN 1 ELSE n]

\* What the pass reads from the pipeline state and the module.
PipelineOf(calls, active, xfbVariant, usage, rasterStream, enableXfb, target, hasGs, hasFs) ==
  [hasGs |-> hasGs, hasFs |-> hasFs,
   gfxMajor |-> target.gfxMajor, isGsOnChip |-> target.isGsOnChip,
   enableNgg |-> target.enableNgg,
   esGsLdsSize |-> U32(256), outputVertices |-> 3,
   enableXfb |-> enableXfb, rasterStream |-> rasterStream,
   outLocCount |-> OutLocCountOf(calls, active),
   builtInUsage |-> usage, enableMultiView |-> FALSE,
   outputLocMap |-> OutputLocMapOf(calls),
   builtInOutputLocMap |-> LocOfBuiltIn,
   xfbOutsInfo |-> XfbOutsInfoOf(calls, active, xfbVariant),
   gsExports |-> calls]

\* Pipelines that vary the streams, the raster stream, transform feedback and
\* the built-ins.
StreamPipelines ==
  { PipelineOf(Concat([i \in DOMAIN SortedSeq(active) |->
                          StreamExports(SortedSeq(active)[i], ev)]),
               active, xv, usage, rs, xfb, Target(10, FALSE, FALSE), TRUE, TRUE) :
      active \in SUBSET Streams, ev \in ExportVariants, xv \in XfbVariants,
      usage \in BuiltInUsages, rs \in Streams, xfb \in BOOLEAN }

\* Pipelines that vary the export calls of the geometry shader.
ScanPipelines ==
  { PipelineOf(calls, {0}, 1, BuiltInUsage(TRUE, FALSE, 0, 0, FALSE, FALSE, FALSE),
               0, xfb, Target(10, FALSE, FALSE), TRUE, TRUE) :
      calls \in WideExportLists, xfb \in BOOLEAN }

\* Values of calcFactor.esGsLdsSize: a small one, and one so large that the
\* offsets wrap around.
LdsSizes == { <<0, 256>>, <<65535, 65500>> }

\* Pipelines that vary the target, and whether there is a geometry shader.
TargetPipelines ==
  { [PipelineOf(StreamExports(0, ev) \o StreamExports(1, ev), {0, 1}, 2,
                BuiltInUsage(TRUE, TRUE, 2, 1, TRUE, TRUE, TRUE), 0, xfb, t, hasGs, hasFs)
       EXCEPT !.esGsLdsSize = lds] :
      ev \in {1, 2}, xfb \in BOOLEAN, t \in Targets, hasGs \in BOOLEAN, hasFs \in BOOLEAN,
      lds \in LdsSizes }

Pipelines == StreamPipelines \cup ScanPipelines \cup TargetPipelines

\* The stage mask and the functions of the module before the pass.
StageMaskOf(p) == 2 + (IF p.hasGs THEN 8 ELSE 0) + (IF p.hasFs THEN 16 ELSE 0)
FunctionsOf(p) ==
  <<"vs">> \o (IF p.hasGs THEN <<"gs">> ELSE <<>>) \o (IF p.hasFs THEN <<"fs">> ELSE <<>>)

InitCopy ==
  /\ pipeline \in Pipelines
  /\ genericOutByteSizes = <<>>
  /\ cpc = "start"
  /\ code = <<>>
  /\ switchInst = [created |-> FALSE, default |-> "", cases |-> <<>>, reserved |-> 0]
  /\ streamId = 0
  /\ outputStreamId = InvalidValue
  /\ failed = {}
  /\ copyOut = [retval |-> "none", shaderStageMask |-> StageMaskOf(pipeline),
                functions |-> FunctionsOf(pipeline),
                copyShaderStreamOutTable |-> 0, copyShaderEsGsLdsSize |-> 0,
                lds |-> FALSE, gsVsRingBufDesc |-> FALSE]
  /\ FetchIdle
  /\ GenIdle

NextCopy ==
  \/ NoGeometryShader
  \/ Collect
  \/ CreateEntryPoint
  \/ BeginSwitch
  \/ SwitchStream
  \/ EndSwitch
  \/ ExportSingle
  \/ FinishCopyShader

SpecCopy == InitCopy /\ [][NextCopy]_vars

\* ----------------------------------------------------- claims on generate
GenRegInfo == m_vsEntryRegInfo[1]
PassThroughCount == GenRegInfo.sgprCount + GenRegInfo.vgprCount
BoundFetches == {k \in DOMAIN m_fetches[1] : m_fetchDescriptions[1][k] # 0}
LoadsOf(k) == {i \in Range(insts) : i.op = "load" /\ i.fetch = k - 1}
AllLoads == {i \in Range(insts) : i.op = "load"}
\* insertvalue instructions that write struct field n
InsertsAt(n) == {i \in Range(insts) : i.op = "insertvalue" /\ i.n = n}
InstWithId(id) == CHOOSE i \in Range(insts) : i.id = id

\* C3: a fetch whose description is absent gets no fetchVertex load sequence and
\* its struct field idx + sgprCount + vgprCount is never written by an
\* insertvalue; the number of load sequences emitted is the number of fetches
\* with a present description (of those processed so far, and of all at the end).
C3_UnboundNeverFetched ==
  /\ \A k \in DOMAIN m_fetches[1] :
       m_fetchDescriptions[1][k] = 0 =>
         /\ LoadsOf(k) = {}
         /\ InsertsAt(k - 1 + PassThroughCount) = {}
  /\ fpc = "loop" => Cardinality(AllLoads) = Cardinality({k \in BoundFetches : k <= idx})
  /\ fpc \in {"resolve", "done"} => Cardinality(AllLoads) = Cardinality(BoundFetches)

\* Witness of C3: generate() has returned for a list whose first fetch is
\* unbound and whose second is bound.
C3_Witness ==
  /\ fpc = "done"
  /\ Len(m_fetches[1]) = 2
  /\ m_fetchDescriptions[1][1] = 0
  /\ m_fetchDescriptions[1][2] # 0
  /\ Cardinality(AllLoads) = 1

\* C8: the function has exactly sgprCount + vgprCount parameters, the first
\* sgprCount being i32 marked inreg and the others float not marked inreg; the
\* return struct has sgprCount + vgprCount + N fields, the field after the
\* pass-through ones at offset i having fetch i's VGPR type, and on return the
\* one insertvalue that writes it is fed by the one load emitted for fetch i.
C8_Signature ==
  (fpc # "idle") =>
    /\ Len(fetchFunc.params) = PassThroughCount
    /\ \A i \in 1..PassThroughCount :
         fetchFunc.params[i] =
           IF i <= GenRegInfo.sgprCount THEN [ty |-> Int32Ty, inreg |-> TRUE]
                                        ELSE [ty |-> FloatTy, inreg |-> FALSE]
    /\ Len(fetchFunc.retTys) = PassThroughCount + Len(m_fetches[1])
    /\ \A k \in DOMAIN m_fetches[1] :
         fetchFunc.retTys[PassThroughCount + k] = getVgprTy(m_fetches[1][k].ty)
    /\ (fpc = "done") =>
         \A k \in BoundFetches :
           /\ Cardinality(LoadsOf(k)) = 1
           /\ Cardinality(InsertsAt(PassThroughCount + k - 1)) = 1
           /\ \A iv \in InsertsAt(PassThroughCount + k - 1) :
                LET cast == InstWithId(iv.ops[2].v)
                IN  /\ cast.op = "bitcast"
                    /\ InstWithId(cast.ops[1].v) \in LoadsOf(k)

\* Witness of C8: the scenario of sgprCount 4, vgprCount 2 and one bound fetch
\* of a 4-wide 32-bit float at location 0: 6 parameters, 7 fields, one load.
C8_Witness ==
  /\ fpc = "done"
  /\ GenRegInfo = VsEntryRegInfo(AMDGPU_VS, 4, 2, 0, 1, 2, 0, 1, FALSE)
  /\ m_fetches[1] = <<VertexFetchInfo(0, 0, Ty(4, "f", 32))>>
  /\ m_fetchDescriptions[1][1] # 0
  /\ Len(fetchFunc.params) = 6
  /\ Len(fetchFunc.retTys) = 7
  /\ Cardinality(AllLoads) = 1

\* C9: when generate() returns no call of a special-user-data or shader-input
\* declaration is left; every iteration of the replacement loop removes exactly
\* one such call and adds none, so the loop ends after as many iterations as
\* calls were created.
C9_PlaceholdersResolved ==
  /\ fpc = "done" => PlaceholderCalls(insts) = {}
  /\ fpc \in {"resolve", "done"} =>
       Cardinality(PlaceholderCalls(insts)) + resolved = created
  /\ resolved <= created

\* Witness of C9: generate() has returned after replacing at least four calls,
\* two of them calls of the same declaration.
C9_Witness ==
  /\ fpc = "done"
  /\ resolved >= 4
  /\ Cardinality(BoundFetches) = 2

\* ------------------------------------------------------ claims on getString
BothBuilt == m_shaderString[1] # <<>> /\ m_shaderString[2] # <<>>

\* The two objects were constructed from equal fetch lists, equal entry register
\* info and descriptions that are present at the same positions with equal
\* contents (wherever those descriptions live).
SameInputs ==
  /\ m_fetches[1] = m_fetches[2]
  /\ m_vsEntryRegInfo[1] = m_vsEntryRegInfo[2]
  /\ DOMAIN m_fetchDescriptions[1] = DOMAIN m_fetchDescriptions[2]
  /\ \A k \in DOMAIN m_fetchDescriptions[1] :
       LET d1 == m_fetchDescriptions[1][k]
           d2 == m_fetchDescriptions[2][k]
       IN  /\ (d1 = 0) <=> (d2 = 0)
           /\ (d1 # 0) => heap[d1] = heap[d2]

SameInputTable ==
  \A l \in Locations :
    LET a1 == findVertexInputDescription(heap, 1, l)
        a2 == findVertexInputDescription(heap, 2, l)
    IN  /\ (a1 = 0) <=> (a2 = 0)
        /\ (a1 # 0) => heap[a1] = heap[a2]

\* C2: two FetchShader objects whose fetch lists (of equal or different length)
\* differ in some (location, component, type) triple, with equal entry register
\* info and equal vertex input tables, return different strings from getString().
C2_FetchListInjective ==
  ( /\ BothBuilt
    /\ m_fetches[1] # m_fetches[2]
    /\ m_vsEntryRegInfo[1] = m_vsEntryRegInfo[2]
    /\ SameInputTable )
  => m_shaderString[1] # m_shaderString[2]

\* Witness of C2: both strings are built for fetch lists of different lengths,
\* one a proper prefix of the other, the longer ending in a bound fetch.
C2_Witness ==
  /\ BothBuilt /\ SameInputTable
  /\ Len(m_fetches[1]) < Len(m_fetches[2])
  /\ m_fetches[1] = SubSeq(m_fetches[2], 1, Len(m_fetches[1]))
  /\ m_fetchDescriptions[2][Len(m_fetches[2])] # 0

\* ------------------------------------------------- claims on the copy shader
\* The pass has made the copy shader.
CopyShaderMade == cpc \in {"exported", "done"} /\ pipeline.hasGs

\* A call the scan records: it is in the entry point and its key is in the
\* output location map.
IsScanned(call) ==
  /\ call.inEntry
  /\ GsOutLocInfo(call.location, FALSE, call.streamId) \in DOMAIN pipeline.outputLocMap

\* The slot of genericOutByteSizes a scanned call writes.
SlotOf(call) ==
  << <<call.streamId,
       pipeline.outputLocMap[GsOutLocInfo(call.location, FALSE, call.streamId)]>>,
     call.compIdx + 1 >>

\* The scanned call is the last one that writes its slot.
IsLastWriter(i) ==
  LET calls == pipeline.gsExports
  IN  \A j \in DOMAIN calls : (j > i /\ IsScanned(calls[j])) => SlotOf(calls[j]) # SlotOf(calls[i])

\* C4: after the scan, every byte size recorded in genericOutByteSizes is a
\* multiple of 4, a scalar of a component width below 32 bits is recorded as
\* exactly 4 bytes, and the assertion byteSize % 4 == 0 of ExportOutput never
\* fails.
C4_ByteSizesAreDwords ==
  (cpc # "start" /\ pipeline.hasGs) =>
    /\ \A k \in DOMAIN genericOutByteSizes : \A c \in 1..4 :
         genericOutByteSizes[k][c] % 4 = 0
    /\ \A i \in DOMAIN pipeline.gsExports :
         LET call == pipeline.gsExports[i]
         IN  (IsScanned(call) /\ IsLastWriter(i) /\ call.compCount = 1 /\ call.bitWidth < 32)
               => genericOutByteSizes[SlotOf(call)[1]][SlotOf(call)[2]] = 4
    /\ "byteSize % 4 == 0" \notin failed

\* C4 witness: the copy shader is finished for a geometry shader whose last
\* export call is an 8-bit scalar at component 3, recorded as 4 bytes and loaded
\* by the export sequence of its stream.
C4_Witness ==
  /\ cpc = "done" /\ copyOut.retval = "true"
  /\ \E i \in DOMAIN pipeline.gsExports :
       LET call == pipeline.gsExports[i]
       IN  /\ i = Len(pipeline.gsExports) /\ i > 1
           /\ IsScanned(call) /\ call.bitWidth = 8 /\ call.compCount = 1 /\ call.compIdx = 3
           /\ genericOutByteSizes[SlotOf(call)[1]][4] = 4
           /\ \E n \in DOMAIN code :
                code[n].op = "buffer.load" /\ code[n].loc = SlotOf(call)[1][2]

\* The instructions of a block, in order.
BlockCode(blk) == SelectSeq(code, LAMBDA x : x.blk = blk)

\* C5: the switch on the stream id is made if and only if more than one stream
\* has outLocCount > 0 and transform feedback is enabled; it then has exactly
\* one case per active stream, its default is the return block, and every
\* stream block ends with a branch to the return block.
C5_SwitchIffMultiStreamXfb ==
  CopyShaderMade =>
    LET active == {s \in Streams : pipeline.outLocCount[s] > 0}
        switches == {i \in DOMAIN code : code[i].op = "switch"}
        cases == switchInst.cases
    IN  /\ switchInst.created <=> (Cardinality(active) > 1 /\ pipeline.enableXfb)
        /\ Cardinality(switches) = (IF switchInst.created THEN 1 ELSE 0)
        /\ switchInst.created =>
             /\ Len(cases) = Cardinality(active)
             /\ {cases[i][1] : i \in DOMAIN cases} = active
             /\ switchInst.default = ".end"
             /\ BlockCode(".end") = <<CI(".end", "ret", 0, 0, NoVal, <<0, 0, 0>>)>>
             /\ \A i \in DOMAIN cases :
                  LET blk == BlockCode(cases[i][2])
                  IN  /\ blk # <<>>
                      /\ blk[Len(blk)].op = "br"
                      /\ blk[Len(blk)].target = ".end"
                      /\ \A n \in 1..(Len(blk) - 1) : blk[n].op # "br"

\* C5 witness: streams 0 and 2 are active with transform feedback, and the
\* finished copy shader has a switch of exactly two cases.
C5_Witness ==
  /\ cpc = "done"
  /\ pipeline.enableXfb
  /\ {s \in Streams : pipeline.outLocCount[s] > 0} = {0, 2}
  /\ switchInst.created
  /\ switchInst.cases = << <<0, ".stream0">>, <<2, ".stream2">> >>

\* The transform feedback record of the output an export call is made for.
XfbInfoOf(inst) ==
  IF inst.op = "export.xfb"
  THEN pipeline.xfbOutsInfo[FindOutLoc(pipeline.outputLocMap, inst.loc, inst.stream)]
  ELSE pipeline.xfbOutsInfo[GsOutLocInfo(inst.loc, TRUE, inst.stream)]

\* C6: for every transform feedback export call, of a generic or a built-in
\* output, the value passed is narrowed to 16 bits if the output's XfbOutInfo is
\* flagged is16bit, and is the 32-bit value if it is not.
C6_XfbValueNarrowedIff16bit ==
  CopyShaderMade =>
    \A i \in DOMAIN code :
      code[i].op \in {"export.xfb", "export.xfb.builtin"} =>
        IF XfbInfoOf(code[i]).is16bit
        THEN code[i].val.ty.elem = "half" /\ code[i].val.conv = "trunc16"
        ELSE code[i].val.ty.elem # "half" /\ code[i].val.conv # "trunc16"

\* C7: with transform feedback enabled and the position built-in unused, the
\* copy shader exports the constant (0,0,0,1) as Position to the rasterizer for
\* the raster stream; with transform feedback disabled no constant position is
\* exported at all.
C7_DummyPositionExported ==
  CopyShaderMade =>
    /\ (pipeline.enableXfb /\ ~pipeline.builtInUsage.position) =>
         \E i \in DOMAIN code :
           /\ code[i].op = "export.builtin"
           /\ code[i].loc = BuiltInPosition
           /\ code[i].val = DummyPosition
           /\ code[i].stream = pipeline.rasterStream
    /\ ~pipeline.enableXfb =>
         \A i \in DOMAIN code : code[i].val # DummyPosition

\* C10: when no switch is made, the one export sequence is that of the raster
\* stream: its generic and built-in outputs are exported to the rasterizer.
C10_SingleExportIsRasterStream ==
  (CopyShaderMade /\ ~switchInst.created) =>
    /\ outputStreamId = pipeline.rasterStream
    /\ \A k \in DOMAIN genericOutByteSizes :
         k[1] = pipeline.rasterStream =>
           \E i \in DOMAIN code :
             code[i].op = "export.generic" /\ code[i].loc = k[2]
               /\ code[i].stream = pipeline.rasterStream
    /\ \A n \in DOMAIN BuiltInPairs(pipeline) :
         \E i \in DOMAIN code :
           code[i].op = "export.builtin" /\ code[i].loc = BuiltInPairs(pipeline)[n][1]
             /\ code[i].stream = pipeline.rasterStream

\* C11: with NGG enabled the copy shader holds no ring buffer descriptor load,
\* no raw buffer load and no LDS load; every value is loaded by the NGG output
\* import call with the arguments (location, 0, streamId).
C11_NggNoMemoryOperation ==
  (CopyShaderMade /\ pipeline.enableNgg) =>
    /\ \A i \in DOMAIN code :
         code[i].op \notin {"ring.desc.load", "buffer.load", "lds.load"}
    /\ ~copyOut.gsVsRingBufDesc
    /\ \A i \in DOMAIN code :
         code[i].op = "ngg.import" => code[i].a = <<code[i].loc, 0, code[i].stream>>
    /\ \A i \in DOMAIN code :
         (code[i].op \in {"export.generic", "export.builtin", "export.xfb",
                          "export.xfb.builtin"} /\ code[i].val.src = "ring") =>
           \E j \in 1..(i - 1) :
             code[j].op = "ngg.import" /\ code[j].val.loc = code[i].val.loc
               /\ code[j].val.stream = code[i].val.stream

\* A call of the geometry entry point whose key is not in the output location
\* map.
HasUnmappedExport ==
  \E i \in DOMAIN pipeline.gsExports :
    pipeline.gsExports[i].inEntry /\ ~IsScanned(pipeline.gsExports[i])

\* C12 (as stated): an export whose key is not in the output location map is
\* fatal: the scan does not skip it and the generation never completes
\* normally, with or without transform feedback.
C12_UnmappedExportFatal ==
  (pipeline.hasGs /\ HasUnmappedExport) =>
    /\ cpc # "start" => failed # {}
    /\ ~(cpc = "done" /\ copyOut.retval = "true")

\* C12 (amended): the scan skips an export whose key is not in the output
\* location map, recording sizes for exactly the mapped exports of the entry
\* point; the lookup of the export step then never fails, and the pass returns
\* true.
C12_UnmappedExportSkipped ==
  (cpc # "start" /\ pipeline.hasGs) =>
    /\ DOMAIN genericOutByteSizes =
         {SlotOf(pipeline.gsExports[i])[1] :
            i \in {j \in DOMAIN pipeline.gsExports : IsScanned(pipeline.gsExports[j])}}
    /\ "locIter != outLocMap.end()" \notin failed
    /\ cpc = "done" => copyOut.retval = "true"

\* C12 witness: the pass has returned true, with transform feedback enabled,
\* for a geometry shader that has an export whose key is not in the map; no
\* assertion failed and the copy shader exports the mapped output.
C12_Witness ==
  /\ cpc = "done" /\ copyOut.retval = "true"
  /\ pipeline.enableXfb
  /\ HasUnmappedExport
  /\ failed = {}
  /\ \E i \in DOMAIN code : code[i].op = "export.generic"

\* ----------------------------------------------- further claims on generate
\* The default case of the switch has been reached.
ErrorRaised == fpc = "unreachable"

BitOf(mask, b) == (mask \div (2 ^ b)) % 2

\* C14: with a geometry entry point the pass returns true and the stage mask is
\* the previous one with the copy shader's bit set and every other bit
\* unchanged; without one the pass returns false and leaves the stage mask, the
\* function list, the copy shader's user data indices and genericOutByteSizes
\* as they were.
C14_StageMaskAndReturn ==
  cpc = "done" =>
    IF pipeline.hasGs
    THEN /\ copyOut.retval = "true"
         /\ \A b \in 0..7 :
              BitOf(copyOut.shaderStageMask, b) =
                IF b = ShaderStageCopyShader THEN 1 ELSE BitOf(StageMaskOf(pipeline), b)
    ELSE /\ copyOut.retval = "false"
         /\ copyOut.shaderStageMask = StageMaskOf(pipeline)
         /\ copyOut.functions = FunctionsOf(pipeline)
         /\ copyOut.copyShaderStreamOutTable = 0
         /\ copyOut.copyShaderEsGsLdsSize = 0
         /\ genericOutByteSizes = <<>>
         /\ code = <<>>

\* C14 witness: the pass has returned true for a module with a vertex, a
\* geometry and a fragment shader, whose mask now has the copy shader's bit too.
C14_Witness ==
  /\ cpc = "done" /\ pipeline.hasGs /\ pipeline.hasFs
  /\ copyOut.retval = "true"
  /\ StageMaskOf(pipeline) = 26
  /\ copyOut.shaderStageMask = 90

\* ----------------------------------------- claims on the returned structure
\* The value of field n of the struct value `val`, following the chain of
\* insertvalue instructions that builds it.
RECURSIVE FieldValue(_, _)
FieldValue(val, n) ==
  IF val.k # "inst" THEN Undef
  ELSE LET i == InstWithId(val.v)
       IN  IF i.op # "insertvalue" THEN Undef
           ELSE IF i.n = n THEN i.ops[2]
           ELSE FieldValue(i.ops[1], n)

\* The operand of the return instruction.
ReturnedValue == insts[Len(insts)].ops[1]

\* C15: for every i < sgprCount + vgprCount, field i of the returned struct is
\* input argument i: the insertvalues of the fetches only write fields from
\* sgprCount + vgprCount on, the replacement of placeholders changes no
\* pass-through field, and with no fetch the body is the pass-through alone.
C15_PassThroughUnchanged ==
  /\ fpc \in {"loop", "resolve", "done"} =>
       /\ \A i \in 0..(PassThroughCount - 1) :
            /\ FieldValue(result, i) = Arg(i)
            /\ \A iv \in InsertsAt(i) : iv.fetch = -1 /\ iv.ops[2] = Arg(i)
       /\ \A iv \in Range(insts) :
            (iv.op = "insertvalue" /\ iv.fetch # -1) => iv.n >= PassThroughCount
  /\ fpc \in {"resolve", "done"} =>
       \A i \in 0..(PassThroughCount - 1) : FieldValue(ReturnedValue, i) = Arg(i)
  /\ (fpc = "done" /\ m_fetches[1] = <<>>) =>
       insts = WithCallee(FetchFuncBody(GenRegInfo))

\* C15 witness: generate() has returned for two bound fetches with 5 SGPRs and 3
\* VGPRs, after replacing placeholder calls; field 7 is still argument 7.
C15_Witness ==
  /\ fpc = "done"
  /\ Cardinality(BoundFetches) = 2
  /\ resolved >= 4
  /\ PassThroughCount = 8
  /\ FieldValue(ReturnedValue, 7) = Arg(7)
  /\ FieldValue(ReturnedValue, 9) # Undef

\* ------------------------------------------ claims on placeholder resolution
\* The instruction with the given id after the step.
InstWithIdNext(id) == CHOOSE i \in Range(insts') : i.id = id

\* The value `v` that replaces a call of `kind` is derived from the register
\* slot the entry register info names for that kind; a slot index below
\* sgprCount (vgprCount) names an SGPR (VGPR) parameter.
IsSlotValue(kind, v) ==
  LET r == GenRegInfo
  IN  CASE kind = "VertexBufferTable" ->
             /\ v.k = "inst"
             /\ InstWithIdNext(v.v).op = "extend"
             /\ InstWithIdNext(v.v).ops[1] = Arg(r.vertexBufferTable)
             /\ r.vertexBufferTable < r.sgprCount =>
                  fetchFunc.params[r.vertexBufferTable + 1].inreg
        [] kind = "BaseVertex" ->
             /\ v = Arg(r.baseVertex)
             /\ r.baseVertex < r.sgprCount => fetchFunc.params[r.baseVertex + 1].inreg
        [] kind = "BaseInstance" ->
             /\ v = Arg(r.baseInstance)
             /\ r.baseInstance < r.sgprCount => fetchFunc.params[r.baseInstance + 1].inreg
        [] kind = "VertexId" ->
             /\ v.k = "inst"
             /\ InstWithIdNext(v.v).op = "bitcast"
             /\ InstWithIdNext(v.v).ops[1] = Arg(r.sgprCount + r.vertexId)
             /\ r.vertexId < r.vgprCount =>
                  ~fetchFunc.params[r.sgprCount + r.vertexId + 1].inreg
        [] kind = "InstanceId" ->
             /\ v.k = "inst"
             /\ InstWithIdNext(v.v).op = "bitcast"
             /\ InstWithIdNext(v.v).ops[1] = Arg(r.sgprCount + r.instanceId)
             /\ r.instanceId < r.vgprCount =>
                  ~fetchFunc.params[r.sgprCount + r.instanceId + 1].inreg
        [] OTHER -> FALSE

\* A step that removes the placeholder call c puts, in every operand that was
\* c, a value derived from c's register slot.
ReplacedBySlotValue ==
  \A c \in PlaceholderCalls(insts) :
    (\A i \in Range(insts') : i.id # c.id) =>
      \A u \in Range(insts) :
        \A j \in DOMAIN u.ops :
          (u.ops[j] = Inst(c.id) /\ u.id # c.id) =>
            IsSlotValue(c.callee.kind, InstWithIdNext(u.id).ops[j])

\* C16: each placeholder call is replaced by a value derived from the register
\* slot named for it: VertexBufferTable by the extension of
\* argument[vertexBufferTable], BaseVertex by argument[baseVertex], BaseInstance
\* by argument[baseInstance], VertexId and InstanceId by the i32 bitcast of
\* argument[sgprCount + vertexId] and argument[sgprCount + instanceId]; the
\* first three are SGPR parameters and the last two VGPR parameters when the
\* slot indices are below sgprCount and vgprCount.
C16_ReplacedFromRegisterSlot == [][ReplacedBySlotValue]_vars

\* C16 witness: generate() has returned for a merged geometry shader; one load
\* now reads the extended table address, argument[baseInstance] and the bitcast
\* of argument[sgprCount + instanceId].
C16_Witness ==
  /\ fpc = "done"
  /\ GenRegInfo.callingConv = AMDGPU_GS
  /\ \E l \in AllLoads :
       /\ Len(l.ops) = 3
       /\ l.ops[1].k = "inst" /\ InstWithId(l.ops[1].v).op = "extend"
       /\ InstWithId(l.ops[1].v).ops[1] = Arg(GenRegInfo.vertexBufferTable)
       /\ l.ops[2] = Arg(GenRegInfo.baseInstance)
       /\ l.ops[3].k = "inst" /\ InstWithId(l.ops[3].v).op = "bitcast"
       /\ InstWithId(l.ops[3].v).ops[1] = Arg(GenRegInfo.sgprCount + GenRegInfo.instanceId)

\* Positions of the lane-enable calls in the function.
InitExecPositions == {i \in DOMAIN insts : insts[i].op = "init.exec"}

\* C17: for the merged HS or GS calling convention the lane-enable call (from
\* argument 3, bit offset 0) is in the function exactly once, before every
\* instruction of the fetches and of the placeholder resolution; for any other
\* calling convention there is none.
C17_InitExecFirst ==
  fpc \in {"loop", "resolve", "done"} =>
    IF fetchFunc.cc \in {AMDGPU_HS, AMDGPU_GS}
    THEN /\ Cardinality(InitExecPositions) = 1
         /\ \A p \in InitExecPositions :
              /\ insts[p].ops = <<Arg(mergedWaveInfoSgpr), Const(0)>>
              /\ \A i \in DOMAIN insts :
                   (insts[i].fetch # -1 \/ insts[i].op \in {"extend", "bitcast"}) => p < i
    ELSE InitExecPositions = {}

\* The positions of the load instructions.
LoadPositions == {i \in DOMAIN code : code[i].op \in {"lds.load", "buffer.load", "ngg.import"}}

\* The load instructions of the value that position i loads (part of), in i's
\* block.
LoadsOfValueAt(i) ==
  {j \in LoadPositions : code[j].val = code[i].val /\ code[j].blk = code[i].blk}

\* Every exported value that comes from the ring is loaded before, in the same
\* block.
ExportsAreLoaded ==
  \A i \in DOMAIN code :
    (code[i].op \in {"export.generic", "export.builtin", "export.xfb", "export.xfb.builtin"}
       /\ code[i].val.src = "ring") =>
      \E j \in LoadPositions :
        /\ j < i /\ code[j].blk = code[i].blk
        /\ code[j].val.loc = code[i].val.loc /\ code[j].val.stream = code[i].val.stream

\* C18: without NGG every load of one copy shader uses one storage backend and
\* its offset formula, in 32-bit wrap-around arithmetic: on-chip, one LDS load
\* per value at esGsLdsSize + vertexOffset + location * 4; off-chip, the ring
\* descriptor is loaded exactly once, at the function's entry, and element i of
\* a value is loaded at vertexOffset * 4 + ((location + i / 4) * 4 + i % 4) * 64
\* * outputVertices.  LDS loads and ring buffer loads are never mixed.
C18_OneBackendAndItsOffsets ==
  (CopyShaderMade /\ ~pipeline.enableNgg) =>
    /\ ExportsAreLoaded
    /\ IF pipeline.isGsOnChip
       THEN /\ \A i \in DOMAIN code : code[i].op \notin {"buffer.load", "ring.desc.load"}
            /\ \A i \in LoadPositions :
                 /\ code[i].op = "lds.load"
                 /\ code[i].a = <<0, Add32(pipeline.esGsLdsSize, U32(code[i].loc * 4)), 1>>
                 /\ LoadsOfValueAt(i) = {i}
       ELSE /\ \A i \in DOMAIN code : code[i].op # "lds.load"
            /\ Cardinality({i \in DOMAIN code : code[i].op = "ring.desc.load"}) = 1
            /\ BlockCode(".entry")[1].op = "ring.desc.load"
            /\ \A i \in LoadPositions :
                 LET e == code[i].a[1]
                     n == ElemCount(code[i].val.ty)
                 IN  /\ code[i].op = "buffer.load"
                     /\ code[i].a =
                          <<e,
                            Mul32(Mul32(U32((code[i].loc + (e \div 4)) * 4 + (e % 4)), 64),
                                  pipeline.outputVertices),
                            4>>
                     /\ Cardinality(LoadsOfValueAt(i)) = n
                     /\ {code[j].a[1] : j \in LoadsOfValueAt(i)} = 0..(n - 1)

\* C18 witness: an off-chip copy shader loads a value of 8 dwords, its element
\* 5 from the second location of the value.
C18_Witness ==
  /\ cpc = "done" /\ ~pipeline.enableNgg /\ ~pipeline.isGsOnChip
  /\ \E i \in DOMAIN code :
       /\ code[i].op = "buffer.load"
       /\ code[i].a[1] = 5
       /\ code[i].a[2] = U32(((code[i].loc + 1) * 4 + 1) * 64 * pipeline.outputVertices)

\* C19: every transform feedback export call, of a generic or of a built-in
\* output, carries the (buffer, offset, extraOffset) recorded in xfbOutsInfo for
\* the output's key, and is emitted only with transform feedback enabled and
\* such a record present.
C19_XfbTripleAsRecorded ==
  CopyShaderMade =>
    \A i \in DOMAIN code :
      code[i].op \in {"export.xfb", "export.xfb.builtin"} =>
        LET key == IF code[i].op = "export.xfb"
                   THEN FindOutLoc(pipeline.outputLocMap, code[i].loc, code[i].stream)
                   ELSE GsOutLocInfo(code[i].loc, TRUE, code[i].stream)
        IN  /\ pipeline.enableXfb
            /\ key \in DOMAIN pipeline.xfbOutsInfo
            /\ code[i].a = << pipeline.xfbOutsInfo[key].xfbBuffer,
                              pipeline.xfbOutsInfo[key].xfbOffset,
                              pipeline.xfbOutsInfo[key].xfbExtraOffset >>

\* C20: the value passed to the rasterizer's generic export of a location of
\* the raster stream is the value loaded from the ring for that location, its
\* 32-bit element type and element count unchanged, also when the location goes
\* to transform feedback flagged 16-bit.
C20_RasterValueUnnarrowed ==
  CopyShaderMade =>
    \A i \in DOMAIN code :
      code[i].op = "export.generic" =>
        /\ code[i].stream = pipeline.rasterStream
        /\ code[i].val =
             RingValue(ValTy("vector", "float",
                             SumSeq(genericOutByteSizes[<<code[i].stream, code[i].loc>>]) \div 4),
                       code[i].loc, code[i].stream)

\* The opcodes of the calls that export to the rasterizer, of the loads, of the
\* transform feedback exports and of the casts that narrow a transform feedback
\* value.
RasterizerExports == {"export.generic", "export.builtin"}
LoadOps == {"ngg.import", "lds.load", "buffer.load"}
XfbExports == {"export.xfb", "export.xfb.builtin"}
NarrowingCasts == {"bitcast", "trunc"}

\* The positions of the instructions ExportOutput(s) has inserted: those of the
\* block of s under the switch, those of the entry block after its preamble
\* when s is the one stream exported without a switch.
SequenceOf(s) ==
  {i \in DOMAIN code :
     /\ code[i].op \notin {"ring.desc.load", "ubfe", "switch", "br", "ret"}
     /\ IF switchInst.created
        THEN code[i].blk = BlockName(s)
        ELSE code[i].blk = ".entry" /\ cpc \in {"exported", "done"} /\ s = outputStreamId}

\* C21: the export sequence of a stream other than the raster stream holds no
\* rasterizer export (generic or built-in), only loads, transform feedback
\* exports and the casts that narrow a transform feedback value; every
\* rasterizer export of the copy shader is in the sequence of the raster stream.
C21_RasterExportsOnlyForRasterStream ==
  /\ \A s \in Streams :
       s # pipeline.rasterStream =>
         \A i \in SequenceOf(s) :
           /\ code[i].op \notin RasterizerExports
           /\ code[i].op \in LoadOps \cup XfbExports \cup NarrowingCasts
           /\ code[i].stream = s
  /\ \A i \in DOMAIN code :
       code[i].op \in RasterizerExports =>
         /\ code[i].stream = pipeline.rasterStream
         /\ i \in SequenceOf(pipeline.rasterStream)

\* C21 witness: a finished copy shader with a switch, in which a stream other
\* than the raster stream has a load and a transform feedback export, and the
\* raster stream has a rasterizer export.
C21_Witness ==
  /\ CopyShaderMade /\ switchInst.created
  /\ \E s \in Streams :
       /\ s # pipeline.rasterStream
       /\ \E i \in SequenceOf(s) : code[i].op \in LoadOps
       /\ \E i \in SequenceOf(s) : code[i].op \in XfbExports
  /\ \E i \in SequenceOf(pipeline.rasterStream) : code[i].op \in RasterizerExports

\* What a call of getString() on the object generate() runs on returns in the
\* current state: the stored string, or the one it builds when none is stored.
ReturnedString ==
  IF m_shaderString[1] = <<>>
  THEN BuildShaderString(heap, m_fetches[1], m_vsEntryRegInfo[1], m_fetchDescriptions[1])
  ELSE m_shaderString[1]

\* One step of getString() or of generate() keeps the string getString()
\* returns, which is not empty; a stored string is left as it is; a step of
\* generate() does not touch the stored string.
StringKept ==
  /\ ReturnedString # <<>>
  /\ ReturnedString' = ReturnedString
  /\ (m_shaderString[1] # <<>>) => (m_shaderString'[1] = m_shaderString[1])
  /\ (m_shaderString'[1] # m_shaderString[1]) => (m_shaderString'[1] # <<>>)
  /\ (genVars' # genVars) => (m_shaderString' = m_shaderString)

\* C22: getString() builds its string on the first call only, the string is
\* never empty once built, later calls return the same string and append
\* nothing, and the steps of generate() before, between or after the calls do
\* not change what getString() returns.
C22_GetStringIdempotent == [][StringKept]_vars

\* C22 witness: generate() has returned a function with fetch code in it and
\* the string of the same object is built.
C22_Witness ==
  /\ fpc = "done"
  /\ m_shaderString[1] # <<>>
  /\ m_shaderString[1] =
       BuildShaderString(heap, m_fetches[1], m_vsEntryRegInfo[1], m_fetchDescriptions[1])
  /\ BoundFetches # {}
  /\ resolved > 0

=============================================================================
